---- MODULE Spec2Model ----
(***************************************************************************)
(* A model of tenable/securitycenter/securitycenter.py: the SecurityCenter *)
(* session client (construction, login, logout, upload), its response      *)
(* error check and the paginated analysis call.                            *)
(*                                                                         *)
(* Python values are modelled as follows.  A dict is a function whose      *)
(* domain is the set of keys present, so "k in d" is k \in DOMAIN d and    *)
(* d[k] on an absent key is a KeyError.  A call either returns a value or  *)
(* raises: Return(v) / Raise(e).  An HTTP response is either a JSON body   *)
(* (a dict) or a body that does not parse as JSON.                         *)
(***************************************************************************)
EXTENDS Integers, Sequences, FiniteSets, TLC

VARIABLES
    chkResp,        \* response handed to _resp_error_check
    chkOut,         \* what _resp_error_check did with it
    phase,          \* "unbuilt", "ready" (a client exists) or "failed"
    host,           \* the host the client was constructed for
    ident,          \* the client's version, build_id, license and uuid
    headers,        \* self._session.headers: the session's default headers
    op,             \* the operation performed last
    reply,          \* what the server answered to the last request
    sent,           \* the last request put on the wire
    ret,            \* how the last operation ended: Return(v) or Raise(e)
    pre,            \* the session's default headers when the last operation began
    auth,           \* token of the last completed login, until logout is called
    authPre,        \* auth when the last operation began
    pc,             \* analysis: "idle", "loop", "done" or "raised"
    filters,        \* analysis: the filter tuples of the call
    args,           \* analysis: the keyword arguments of the call
    kwargs,         \* analysis: kwargs as it stands, the body of the next request
    opts,           \* analysis: the options taken out of kwargs
    count,          \* analysis: the loop's count
    total_records,  \* analysis: the loop's total_records
    output,         \* analysis: the accumulated output list
    reqs,           \* analysis: the requests issued so far, each with its reply
    calls           \* analysis: the calls of the result transform so far

checkVars == <<chkResp, chkOut>>
sessionVars == <<phase, host, ident, headers, op, reply, sent, ret, pre, auth, authPre>>
analysisVars == <<pc, filters, args, kwargs, opts, count, total_records, output,
                  reqs, calls>>
vars == <<chkResp, chkOut, phase, host, ident, headers, op, reply, sent, ret, pre,
          auth, authPre, pc, filters, args, kwargs, opts, count, total_records,
          output, reqs, calls>>

-----------------------------------------------------------------------------
(* Python values                                                           *)

EmptyDict == <<>>

\* The dicts that hold key k with a value of S, or do not hold k at all.
Optional(k, S) == {EmptyDict} \cup {k :> v : v \in S}

Return(v) == [ok |-> TRUE, val |-> v]
Raise(e) == [ok |-> FALSE, exc |-> e]
Pending == [ok |-> FALSE, exc |-> [type |-> "pending"]]

APIError(code, msg) == [type |-> "APIError", code |-> code, msg |-> msg]
ServerError(msg) == [type |-> "ServerError", msg |-> msg]
KeyError(k) == [type |-> "KeyError", key |-> k]
ValueError == [type |-> "ValueError"]
ConnectionError == [type |-> "ConnectionError"]

None == [py |-> "None"]

\* Python truthiness of a JSON number: 0 is falsy, everything else truthy.
Truthy(v) == v # 0

Json(d) == [raw |-> "json", d |-> d]
NonJson(text) == [raw |-> "text", text |-> text]
IsJson(response) == response.raw = "json"

\* response.json(): the decoded body, or ValueError for a non-JSON body.
json(response) ==
    IF IsJson(response) THEN Return(response.d) ELSE Raise(ValueError)

-----------------------------------------------------------------------------
(* SecurityCenter._resp_error_check                                        *)

\* As resp_error_check, but any error_code that is present raises.
resp_error_check_AnyCode(response) ==
    LET j == json(response) IN
    IF ~j.ok
    THEN Return(response)
    ELSE LET d == j.val IN
         IF "error_code" \notin DOMAIN d
         THEN Raise(KeyError("error_code"))
         ELSE IF "error_msg" \notin DOMAIN d
         THEN Raise(KeyError("error_msg"))
         ELSE Raise(APIError(d.error_code, d.error_msg))

resp_error_check(response) ==
    LET j == json(response) IN
    IF ~j.ok
    THEN Return(response)                       \* except ValueError: pass
    ELSE LET d == j.val IN
         IF "error_code" \notin DOMAIN d
         THEN Raise(KeyError("error_code"))     \* d['error_code'], not caught
         ELSE IF ~Truthy(d.error_code)
         THEN Return(response)
         ELSE IF "error_msg" \notin DOMAIN d
         THEN Raise(KeyError("error_msg"))      \* d['error_msg'], not caught
         ELSE Raise(APIError(d.error_code, d.error_msg))

-----------------------------------------------------------------------------
(* The HTTP session the client sits on (tenable.base.APISession)           *)

Down == [net |-> "down"]
Up(resp) == [net |-> "up", resp |-> resp]

\* A request as it leaves the session: the session's default headers go out
\* with every request.
Wire(method, path, hdrs, body) ==
    [method |-> method, path |-> path, headers |-> hdrs, body |-> body]

\* get/post/delete: raise when the transport fails, otherwise hand the
\* response to the response hook and return what the hook returns.
request(rep) ==
    IF rep.net = "down" THEN Raise(ConnectionError) ELSE resp_error_check(rep.resp)

\* _build_session: a fresh session, with no cookies and no token header.
build_session == EmptyDict

NoToken == "-"
Tokens == {"abc123", "def456"}
XSC == "X-SecurityCenter"
TokenOf(hdrs) == IF XSC \in DOMAIN hdrs THEN hdrs[XSC] ELSE NoToken

-----------------------------------------------------------------------------
(* SecurityCenter.__init__                                                 *)

Hosts == {"sc.example.org", "10.0.0.5"}
IdentityKeys == {"version", "buildID", "licenseStatus", "uuid"}
NoIdent == [version |-> "", build_id |-> "", license |-> "", uuid |-> ""]

NotFoundError(h) == ServerError(<<"No SecurityCenter Instance at ", h>>)
InvalidError == ServerError(<<"Invalid SecurityCenter Instance">>)

\* As init, but a body without the identity fields is reported like a server
\* that is not there.
init_OneMessage(h, rep) ==
    LET r == request(rep)
        j == IF r.ok THEN json(r.val) ELSE r
    IN  IF \/ ~j.ok
           \/ "response" \notin DOMAIN j.val
           \/ ~(IdentityKeys \subseteq DOMAIN j.val.response)
        THEN [ret |-> Raise(NotFoundError(h)), ident |-> NoIdent]
        ELSE [ret |-> Return(None),
              ident |-> [version |-> j.val.response.version,
                         build_id |-> j.val.response.buildID,
                         license |-> j.val.response.licenseStatus,
                         uuid |-> j.val.response.uuid]]

\* Lines 40-52: what construction against host h yields when GET system is
\* answered with rep.  Any exception of the first try block (the call, the
\* hook, the JSON decoding) becomes the first ServerError, any exception of
\* the second block (a missing key) the second.
init(h, rep) ==
    LET r == request(rep)
        j == IF r.ok THEN json(r.val) ELSE r
    IN  IF ~j.ok
        THEN [ret |-> Raise(NotFoundError(h)), ident |-> NoIdent]
        ELSE LET d == j.val IN
             IF \/ "response" \notin DOMAIN d
                \/ ~(IdentityKeys \subseteq DOMAIN d.response)
             THEN [ret |-> Raise(InvalidError), ident |-> NoIdent]
             ELSE [ret |-> Return(None),
                   ident |-> [version |-> d.response.version,
                              build_id |-> d.response.buildID,
                              license |-> d.response.licenseStatus,
                              uuid |-> d.response.uuid]]

-----------------------------------------------------------------------------
(* SecurityCenter.login, logout, upload                                    *)

\* As login, but a token header that is already set is kept.
login_KeepOld(hdrs, rep) ==
    LET r == request(rep)
        j == IF r.ok THEN json(r.val) ELSE r
    IN  IF ~j.ok
        THEN [ret |-> j, headers |-> hdrs]
        ELSE LET d == j.val IN
             IF "response" \notin DOMAIN d
             THEN [ret |-> Raise(KeyError("response")), headers |-> hdrs]
             ELSE IF "token" \notin DOMAIN d.response
             THEN [ret |-> Raise(KeyError("token")), headers |-> hdrs]
             ELSE [ret |-> Return(None),
                   headers |-> hdrs @@ (XSC :> d.response.token)]

\* As login, but a failed login drops the session's headers.
login_ClearOnFail(hdrs, rep) ==
    LET r == request(rep)
        j == IF r.ok THEN json(r.val) ELSE r
    IN  IF ~j.ok
        THEN [ret |-> j, headers |-> build_session]
        ELSE LET d == j.val IN
             IF "response" \notin DOMAIN d
             THEN [ret |-> Raise(KeyError("response")), headers |-> build_session]
             ELSE IF "token" \notin DOMAIN d.response
             THEN [ret |-> Raise(KeyError("token")), headers |-> build_session]
             ELSE [ret |-> Return(None),
                   headers |-> (XSC :> d.response.token) @@ hdrs]

\* Lines 74-77.  The header dict is built before headers.update runs, so a
\* missing key leaves the session's headers alone.
login(hdrs, rep) ==
    LET r == request(rep)
        j == IF r.ok THEN json(r.val) ELSE r
    IN  IF ~j.ok
        THEN [ret |-> j, headers |-> hdrs]
        ELSE LET d == j.val IN
             IF "response" \notin DOMAIN d
             THEN [ret |-> Raise(KeyError("response")), headers |-> hdrs]
             ELSE IF "token" \notin DOMAIN d.response
             THEN [ret |-> Raise(KeyError("token")), headers |-> hdrs]
             ELSE [ret |-> Return(None),
                   headers |-> (XSC :> d.response.token) @@ hdrs]

\* Lines 81-82: _build_session runs only when self.delete returned.
logout(hdrs, rep) ==
    LET r == request(rep) IN
    IF ~r.ok
    THEN [ret |-> r, headers |-> hdrs]
    ELSE [ret |-> Return(None), headers |-> build_session]

\* Line 91: the raw response, or whatever the call raised.
upload(rep) == request(rep)

-----------------------------------------------------------------------------
(* SecurityCenter.analysis: values                                         *)

DefaultPageSize == 1000

PageAll == [str |-> "all"]
PageNum(n) == [int |-> n]

\* As OptNames, but generator is not among the options taken out.
OptNames_NoGenerator == {"page", "page_size", "page_obj", "page_kwargs"}

\* Line 166: the options taken out of kwargs.
OptNames == {"page", "page_size", "page_obj", "page_kwargs", "generator"}

Restrict(d, keys) == [k \in keys |-> d[k]]

Reverse(seq) == [i \in 1..Len(seq) |-> seq[Len(seq) + 1 - i]]

\* A number in a JSON body is either a JSON number or, as SecurityCenter
\* sends its counters, a string of characters.
Num(n) == [num |-> n]
Str(chars) == [str |-> chars]

DigitChars == <<"0", "1", "2", "3", "4", "5", "6", "7", "8", "9">>
IsDigit(c) == \E i \in 1..Len(DigitChars) : DigitChars[i] = c
DigitValue(c) == (CHOOSE i \in 1..Len(DigitChars) : DigitChars[i] = c) - 1

RECURSIVE Decimal(_)
Decimal(chars) ==
    IF chars = <<>> THEN 0
    ELSE Len(DigitChars) * Decimal(SubSeq(chars, 1, Len(chars) - 1))
            + DigitValue(chars[Len(chars)])

RECURSIVE Digits(_)
Digits(n) ==
    IF n < Len(DigitChars) THEN <<DigitChars[n + 1]>>
    ELSE Append(Digits(n \div Len(DigitChars)), DigitChars[(n % Len(DigitChars)) + 1])

\* int(v) of lines 198 and 200: a number as it is, a string of digits as the
\* number it spells, ValueError for any other string.
int(v) ==
    IF "num" \in DOMAIN v THEN Return(v.num)
    ELSE IF v.str # <<>> /\ \A i \in 1..Len(v.str) : IsDigit(v.str[i])
    THEN Return(Decimal(v.str))
    ELSE Raise(ValueError)

\* A Python list, as opposed to any other value: isinstance(out, list).
List(seq) == [list |-> seq]
IsList(v) == "list" \in DOMAIN v

-----------------------------------------------------------------------------
(* SecurityCenter.analysis: the result transforms                          *)

\* Line 146, the default transform.
return_results(kw) ==
    LET j == json(kw.resp) IN
    IF ~j.ok THEN j
    ELSE IF "response" \notin DOMAIN j.val THEN Raise(KeyError("response"))
    ELSE IF "results" \notin DOMAIN j.val.response THEN Raise(KeyError("results"))
    ELSE Return(List(j.val.response.results))

\* A Python tuple: a sequence that is not a list.
Tuple(seq) == [tuple |-> seq]
IsTuple(v) == "tuple" \in DOMAIN v

\* The functions a caller passes in this model: one that returns a list (the
\* page's results, newest first), one that returns a tuple (the page's
\* results) and one that returns no sequence (their number).
CallerFuncs == {"newest_first", "as_tuple", "how_many"}

\* Line 194: opts['page_obj'](**opts['page_kwargs']).
call(fn, kw) ==
    LET r == return_results(kw) IN
    IF fn = "return_results" \/ ~r.ok THEN r
    ELSE IF fn = "newest_first" THEN Return(List(Reverse(r.val.list)))
    ELSE IF fn = "as_tuple" THEN Return(Tuple(r.val.list))
    ELSE Return(Num(Len(r.val.list)))

-----------------------------------------------------------------------------
(* SecurityCenter.analysis: lines 144-189, up to the loop                  *)

Frame(k, o) ==
    [kwargs |-> k, opts |-> o, count |-> 0, total_records |-> o.page_size,
     output |-> <<>>]

\* As filter_dicts, but every filter is given the default type.
filter_dicts_DefaultType(fs, type) ==
    [i \in 1..Len(fs) |->
        [filterName |-> fs[i][1], operator |-> fs[i][2], value |-> fs[i][3],
         type |-> "vuln"]]

\* Line 178.
filter_dicts(fs, type) ==
    [i \in 1..Len(fs) |->
        [filterName |-> fs[i][1], operator |-> fs[i][2], value |-> fs[i][3],
         type |-> type]]

\* As offsets, but the page number is added instead of multiplied.
offsets_Added(o) ==
    IF o.page = PageAll
    THEN [startOffset |-> 0, endOffset |-> o.page_size]
    ELSE [startOffset |-> o.page.int + o.page_size,
          endOffset |-> (o.page.int + 1) + o.page_size]

\* Lines 181-186.
offsets(o) ==
    IF o.page = PageAll
    THEN [startOffset |-> 0, endOffset |-> o.page_size]
    ELSE [startOffset |-> o.page.int * o.page_size,
          endOffset |-> (o.page.int + 1) * o.page_size]

\* As custom, but a query of the caller's is never recognised.
custom_Never(k) == FALSE

\* Line 174: the caller passed a query body of their own.
custom(k) == "query" \in DOMAIN k

setup(fs, kw) ==
    LET k1 == kw @@ ("page" :> PageAll) @@ ("page_size" :> DefaultPageSize)
                 @@ ("page_obj" :> "return_results") @@ ("page_kwargs" :> EmptyDict)
                 @@ ("type" :> "vuln") @@ ("sourceType" :> "cumulative")
        k2 == IF "generator" \in DOMAIN k1
              THEN ("generator" :> "return_generator") @@ k1
              ELSE k1
        o == Restrict(k2, OptNames \cap DOMAIN k2)
        k3 == Restrict(k2, DOMAIN k2 \ OptNames)
    IN  IF custom(k3) THEN Return(Frame(k3, o))
        ELSE IF "tool" \notin DOMAIN k3 THEN Raise(KeyError("tool"))
        ELSE LET query == [tool |-> k3.tool, type |-> k3.type,
                           filters |-> filter_dicts(fs, k3.type)] @@ offsets(o)
             IN  Return(Frame(Restrict(("query" :> query) @@ k3,
                                       (DOMAIN k3 \cup {"query"}) \ {"tool"}), o))

-----------------------------------------------------------------------------
(* SecurityCenter.analysis: lines 192-204, one iteration of the loop       *)

\* The iteration raised: the call ends there, its locals are gone.
\* As Stopped, but the error is replaced by one of the client's own.
Stopped_Wrapped(r, called) ==
    [ret |-> Raise(ServerError("analysis failed")), called |-> called]

\* The loop is left by an exception: nothing is caught in lines 190-204.
Stopped(r, called) == [ret |-> r, called |-> called]

\* As accumulate, but the items of any sequence are appended.
accumulate_Sequences(out, v) ==
    IF IsList(v) THEN out \o v.list
    ELSE IF IsTuple(v) THEN out \o v.tuple
    ELSE out

\* Lines 195-197: the items of a list are appended, nothing else is.
accumulate(out, v) == IF IsList(v) THEN out \o v.list ELSE out

\* As advance, but the next page starts where the last request ended.
advance_FromRequest(query, e, page_size) ==
    ("startOffset" :> query.endOffset)
        @@ ("endOffset" :> query.endOffset + page_size) @@ query

\* As advance, but the next page ends where the server's offset is.
advance_NoWindow(query, e, page_size) ==
    ("startOffset" :> e) @@ ("endOffset" :> e) @@ query

\* Lines 201-202.
advance(query, e, page_size) ==
    ("startOffset" :> e) @@ ("endOffset" :> e + page_size) @@ query

step(k, o, out, rep) ==
    LET r == request(rep) IN
    IF ~r.ok THEN Stopped(r, <<>>)
    ELSE
    LET resp == r.val
        pkw == ("resp" :> resp) @@ o.page_kwargs
        called == <<[fn |-> o.page_obj, kw |-> pkw]>>
        c == call(o.page_obj, pkw)
    IN
    IF ~c.ok THEN Stopped(c, called)
    ELSE
    LET out2 == accumulate(out, c.val)
        j == json(resp)
    IN
    IF ~j.ok THEN Stopped(j, called)
    ELSE IF "response" \notin DOMAIN j.val
    THEN Stopped(Raise(KeyError("response")), called)
    ELSE IF "totalRecords" \notin DOMAIN j.val.response
    THEN Stopped(Raise(KeyError("totalRecords")), called)
    ELSE
    LET t == int(j.val.response.totalRecords) IN
    IF ~t.ok THEN Stopped(t, called)
    ELSE IF o.page # PageAll
    THEN [ret |-> Return(None), kwargs |-> k, count |-> t.val,
          total_records |-> t.val, output |-> out2, called |-> called]
    ELSE IF "endOffset" \notin DOMAIN j.val.response
    THEN Stopped(Raise(KeyError("endOffset")), called)
    ELSE
    LET e == int(j.val.response.endOffset) IN
    IF ~e.ok THEN Stopped(e, called)
    ELSE [ret |-> Return(None),
          kwargs |-> ("query" :> advance(k.query, e.val, o.page_size)) @@ k,
          count |-> e.val, total_records |-> t.val, output |-> out2,
          called |-> called]

\* As looping, but the total is compared with nothing.
looping_Total(total, cnt) == total > 0

\* As looping, but the loop ends one record early.
looping_OffByOne(total, cnt) == total > cnt + 1

\* Line 190: while total_records > count.
looping(total, cnt) == total > cnt

\* As result, but an empty list is returned as it is.
result_AlwaysList(out) == Return(List(out))

\* Lines 205-206.
result(out) == IF Len(out) > 0 THEN Return(List(out)) ELSE Return(None)

-----------------------------------------------------------------------------
(* The server's answers                                                    *)

Envelopes(payloads) ==
    {c @@ m @@ p : c \in Optional("error_code", 0..1),
                   m \in Optional("error_msg", {"bad"}),
                   p \in Optional("response", payloads)}

Replies(payloads) ==
    {Down, Up(NonJson("<html>"))} \cup {Up(Json(d)) : d \in Envelopes(payloads)}

SystemPayloads ==
    {v @@ b @@ l @@ u : v \in Optional("version", {"5.4.0"}),
                        b \in Optional("buildID", {"201701"}),
                        l \in Optional("licenseStatus", {"Valid", "Expired"}),
                        u \in Optional("uuid", {"0f3a"})}

TokenPayloads == Optional("token", Tokens)

Users == {"admin"}
Passwords == {"secret"}
Files == {"scan.nessus"}

-----------------------------------------------------------------------------
(* The session, operation by operation                                     *)

SessionIdle ==
    /\ phase = "unbuilt"
    /\ host = ""
    /\ ident = NoIdent
    /\ headers = EmptyDict
    /\ op = "none"
    /\ reply = Down
    /\ sent = Wire("", "", EmptyDict, None)
    /\ ret = Pending
    /\ pre = EmptyDict
    /\ auth = NoToken
    /\ authPre = NoToken

AnalysisIdle ==
    /\ pc = "idle"
    /\ filters = <<>>
    /\ args = EmptyDict
    /\ kwargs = EmptyDict
    /\ opts = EmptyDict
    /\ count = 0
    /\ total_records = 0
    /\ output = <<>>
    /\ reqs = <<>>
    /\ calls = <<>>

Init ==
    /\ SessionIdle
    /\ AnalysisIdle
    /\ chkResp = NonJson("")
    /\ chkOut = Pending

Construct ==
    /\ phase = "unbuilt"
    /\ \E h \in Hosts, rep \in Replies(SystemPayloads) :
          LET c == init(h, rep) IN
          /\ host' = h
          /\ phase' = IF c.ret.ok THEN "ready" ELSE "failed"
          /\ ident' = c.ident
          /\ ret' = c.ret
          /\ reply' = rep
          /\ sent' = Wire("GET", "system", build_session, None)
    /\ headers' = build_session
    /\ pre' = build_session
    /\ op' = "init"
    /\ UNCHANGED <<auth, authPre>>
    /\ UNCHANGED checkVars
    /\ UNCHANGED analysisVars

Login ==
    /\ phase = "ready"
    /\ \E user \in Users, passwd \in Passwords, rep \in Replies(TokenPayloads) :
          LET l == login(headers, rep) IN
          /\ headers' = l.headers
          /\ ret' = l.ret
          /\ reply' = rep
          /\ sent' = Wire("POST", "token", headers,
                          [username |-> user, password |-> passwd])
          /\ auth' = IF l.ret.ok THEN rep.resp.d.response.token ELSE auth
    /\ pre' = headers
    /\ authPre' = auth
    /\ op' = "login"
    /\ UNCHANGED <<phase, host, ident>>
    /\ UNCHANGED checkVars
    /\ UNCHANGED analysisVars

Logout ==
    /\ phase = "ready"
    /\ \E rep \in Replies(TokenPayloads) :
          LET l == logout(headers, rep) IN
          /\ headers' = l.headers
          /\ ret' = l.ret
          /\ reply' = rep
    /\ sent' = Wire("DELETE", "token", headers, None)
    /\ auth' = NoToken
    /\ pre' = headers
    /\ authPre' = auth
    /\ op' = "logout"
    /\ UNCHANGED <<phase, host, ident>>
    /\ UNCHANGED checkVars
    /\ UNCHANGED analysisVars

Upload ==
    /\ phase = "ready"
    /\ \E fileobj \in Files, rep \in Replies(TokenPayloads) :
          /\ ret' = upload(rep)
          /\ reply' = rep
          /\ sent' = Wire("POST", "file/upload", headers, [Filedata |-> fileobj])
    /\ pre' = headers
    /\ authPre' = auth
    /\ op' = "upload"
    /\ UNCHANGED <<phase, host, ident, headers, auth>>
    /\ UNCHANGED checkVars
    /\ UNCHANGED analysisVars

Next == Construct \/ Login \/ Logout \/ Upload

Spec == Init /\ [][Next]_vars

-----------------------------------------------------------------------------
(* The analysis endpoint                                                   *)

MaxTotal == 3
MaxRequests == 3
MaxPage == 2
MaxPageSize == 2
BigTotal == 2500

Min(a, b) == IF a < b THEN a ELSE b

\* The records start+1 .. end of the server's data.
Slice(start, end) == [i \in 1..(end - start) |-> start + i]

StartOf(body) ==
    IF "startOffset" \in DOMAIN body.query THEN body.query.startOffset ELSE 0
EndOf(body) ==
    IF "endOffset" \in DOMAIN body.query THEN body.query.endOffset ELSE MaxTotal

\* A page of a data set of t records, answering the offsets asked for, that
\* reports e as the offset it ends at.
Page(body, t, e) ==
    [totalRecords |-> Str(Digits(t)),
     startOffset |-> Str(Digits(StartOf(body))),
     endOffset |-> Num(e),
     results |-> Slice(StartOf(body), Min(EndOf(body), t))]

\* The totals the server reports: small ones, and a big one when it is asked
\* for pages of the default size.
Totals(body) ==
    (0..MaxTotal)
    \cup (IF EndOf(body) - StartOf(body) = DefaultPageSize THEN {BigTotal} ELSE {})

\* The server may report any total, and as end offset the one asked for, the
\* one the request started at (no progress) or the total.
Pages(body) ==
    {Page(body, t, e) : t \in Totals(body), e \in {StartOf(body), EndOf(body)}}
    \cup {Page(body, t, t) : t \in Totals(body)}

Malformed(body) ==
    LET pg == Page(body, 1, EndOf(body)) IN
    {Restrict(pg, DOMAIN pg \ {k}) : k \in {"totalRecords", "endOffset", "results"}}
    \cup {("totalRecords" :> Str(<<"n", "/", "a">>)) @@ pg}

AnalysisReplies(body) ==
    {Down, Up(NonJson("<html>")),
     Up(Json([error_code |-> 1, error_msg |-> "bad"])),
     Up(Json([response |-> Page(body, 1, EndOf(body))]))}
    \cup {Up(Json([error_code |-> 0, error_msg |-> "", response |-> pg])) :
             pg \in Pages(body) \cup Malformed(body)}

-----------------------------------------------------------------------------
(* The calls of analysis                                                   *)

FilterTuples == {<<"ip", "=", "10.10.0.0/16">>, <<"severity", ">=", "3">>}
FilterLists ==
    {<<>>} \cup {<<f>> : f \in FilterTuples}
    \cup {<<f, g>> : f \in FilterTuples, g \in FilterTuples}

Tool == "tool" :> "sumip"
PageValues == {PageAll} \cup {PageNum(n) : n \in 0..MaxPage}
PageSizes == 0..MaxPageSize

\* Any pagination of an unfiltered query.
PagingCalls ==
    {<<<<>>, Tool @@ p @@ z>> : p \in Optional("page", PageValues),
                               z \in Optional("page_size", PageSizes)}

\* Any filters, type and source type, with or without tool, on one page.
ShapingCalls ==
    {<<fs, ("page" :> PageNum(0)) @@ t @@ ty @@ st @@ g>> :
        fs \in FilterLists,
        t \in Optional("tool", {"sumip"}),
        ty \in Optional("type", {"event"}),
        st \in Optional("sourceType", {"archive"}),
        g \in Optional("generator", {"True"})}

\* Any result transform, passed under the name the code reads (page_obj,
\* page_kwargs) or under the documented one (page_func, page_func_kw).
Documented ==
    {("page_func" :> "newest_first") @@ dk :
        dk \in Optional("page_func_kw", {[sep |-> ","]})}
TransformCalls ==
    {<<<<>>, Tool @@ ("page_size" :> 1) @@ f @@ fk>> :
        f \in Optional("page_obj", CallerFuncs),
        fk \in Optional("page_kwargs", {[sep |-> ","]})}
    \cup {<<<<>>, Tool @@ ("page_size" :> 1) @@ d>> : d \in Documented}

\* A query body of the caller's own, with or without filters and tool, for
\* one page or all.
CustomQuery ==
    [tool |-> "listvuln", type |-> "vuln",
     filters |-> <<[filterName |-> "port", operator |-> "=", value |-> "22"]>>,
     startOffset |-> 0, endOffset |-> 1]
CustomCalls ==
    {<<fs, ("query" :> CustomQuery) @@ ("page_size" :> MaxPageSize) @@ t @@ p>> :
        fs \in {<<>>, <<(CHOOSE f \in FilterTuples : TRUE)>>},
        t \in Optional("tool", {"sumip"}),
        p \in Optional("page", {PageNum(1)})}

Calls == PagingCalls \cup ShapingCalls \cup TransformCalls \cup CustomCalls

-----------------------------------------------------------------------------
(* analysis, step by step                                                  *)

InitAnalysis ==
    /\ phase = "ready"
    /\ host = "sc.example.org"
    /\ ident = [version |-> "5.4.0", build_id |-> "201701", license |-> "Valid",
                uuid |-> "0f3a"]
    /\ headers = (XSC :> "abc123")
    /\ op = "login"
    /\ reply = Up(Json([error_code |-> 0, response |-> [token |-> "abc123"]]))
    /\ sent = Wire("POST", "token", EmptyDict,
                   [username |-> "admin", password |-> "secret"])
    /\ ret = Return(None)
    /\ pre = EmptyDict
    /\ auth = "abc123"
    /\ authPre = NoToken
    /\ AnalysisIdle
    /\ chkResp = NonJson("")
    /\ chkOut = Pending

\* analysis is called with the filters and keyword arguments c.
Called(c) ==
    LET s == setup(c[1], c[2]) IN
    /\ filters' = c[1]
    /\ args' = c[2]
    /\ IF s.ok
       THEN /\ pc' = "loop"
            /\ ret' = Pending
            /\ kwargs' = s.val.kwargs
            /\ opts' = s.val.opts
            /\ count' = s.val.count
            /\ total_records' = s.val.total_records
            /\ output' = s.val.output
       ELSE /\ pc' = "raised"
            /\ ret' = s
            /\ UNCHANGED <<kwargs, opts, count, total_records, output>>
    /\ reqs' = <<>>
    /\ calls' = <<>>
    /\ op' = "analysis"
    /\ pre' = headers
    /\ authPre' = auth
    /\ UNCHANGED <<phase, host, ident, headers, reply, sent, auth>>
    /\ UNCHANGED checkVars

AnalysisCall ==
    /\ phase = "ready"
    /\ pc = "idle"
    /\ \E c \in Calls : Called(c)

\* One iteration of the loop, its request answered with rep.
Requested(rep) ==
    LET st == step(kwargs, opts, output, rep) IN
    /\ reply' = rep
    /\ reqs' = Append(reqs, [body |-> kwargs, headers |-> headers, reply |-> rep])
    /\ calls' = calls \o st.called
    /\ IF st.ret.ok
       THEN /\ kwargs' = st.kwargs
            /\ count' = st.count
            /\ total_records' = st.total_records
            /\ output' = st.output
            /\ UNCHANGED <<pc, ret>>
       ELSE /\ pc' = "raised"
            /\ ret' = st.ret
            /\ UNCHANGED <<kwargs, count, total_records, output>>
    /\ sent' = Wire("POST", "analysis", headers, kwargs)
    /\ UNCHANGED <<phase, host, ident, headers, op, pre, auth, authPre>>
    /\ UNCHANGED <<filters, args, opts>>
    /\ UNCHANGED checkVars

AnalysisRequest ==
    /\ pc = "loop"
    /\ looping(total_records, count)
    /\ Len(reqs) < MaxRequests
    /\ \E rep \in AnalysisReplies(kwargs) : Requested(rep)

AnalysisReturn ==
    /\ pc = "loop"
    /\ ~looping(total_records, count)
    /\ pc' = "done"
    /\ ret' = result(output)
    /\ UNCHANGED <<phase, host, ident, headers, op, reply, sent, pre, auth, authPre>>
    /\ UNCHANGED <<filters, args, kwargs, opts, count, total_records, output, reqs,
                   calls>>
    /\ UNCHANGED checkVars

NextAnalysis == AnalysisCall \/ AnalysisRequest \/ AnalysisReturn

SpecAnalysis == InitAnalysis /\ [][NextAnalysis]_vars

-----------------------------------------------------------------------------
(* analysis against a server that makes progress                           *)

\* The end offset the server reported last, or -1 before the first request.
LastEnd ==
    IF reqs = <<>> THEN -1 ELSE reqs[Len(reqs)].reply.resp.d.response.endOffset.num

ProgressOffsets == 0..(MaxTotal + MaxPageSize)

\* Pages whose total is at most MaxTotal and whose end offset is beyond the
\* one reported before.
ProgressReplies(body) ==
    {Up(Json([error_code |-> 0, error_msg |-> "", response |-> Page(body, t, e)])) :
        t \in 0..MaxTotal, e \in {x \in ProgressOffsets : x > LastEnd}}

ProgressCalls ==
    {<<<<>>, Tool @@ p @@ ("page_size" :> z)>> :
        p \in Optional("page", {PageAll}), z \in 1..MaxPageSize}

ProgressCall ==
    /\ phase = "ready"
    /\ pc = "idle"
    /\ \E c \in ProgressCalls : Called(c)

ProgressRequest ==
    /\ pc = "loop"
    /\ looping(total_records, count)
    /\ \E rep \in ProgressReplies(kwargs) : Requested(rep)

NextProgress == ProgressCall \/ ProgressRequest \/ AnalysisReturn

\* The call is synchronous: it keeps running, and the server keeps answering.
SpecProgress == InitAnalysis /\ [][NextProgress]_vars /\ WF_vars(NextProgress)

-----------------------------------------------------------------------------
(* The responses the error check is tried on                               *)

MaxErrorCode == 2

ErrorCodes == 0..MaxErrorCode
ErrorMsgs == {"", "bad", "denied"}
Payloads == {[token |-> t] : t \in Tokens} \cup {[results |-> <<>>]}

CheckBodies ==
    {c @@ m @@ p : c \in Optional("error_code", ErrorCodes),
                   m \in Optional("error_msg", ErrorMsgs),
                   p \in Optional("response", Payloads)}

CheckResponses ==
    {Json(d) : d \in CheckBodies} \cup {NonJson(t) : t \in {"", "<html>", "PK"}}

InitCheck ==
    /\ chkResp \in CheckResponses
    /\ chkOut = Pending
    /\ SessionIdle
    /\ AnalysisIdle

RespErrorCheck ==
    /\ chkOut = Pending
    /\ chkOut' = resp_error_check(chkResp)
    /\ UNCHANGED chkResp
    /\ UNCHANGED sessionVars
    /\ UNCHANGED analysisVars

NextCheck == RespErrorCheck

SpecCheck == InitCheck /\ [][NextCheck]_vars

-----------------------------------------------------------------------------
(* Properties of the session                                               *)

\* The reply is a JSON body that the response error check lets through.
Accepted(rep) ==
    /\ rep.net = "up"
    /\ IsJson(rep.resp)
    /\ "error_code" \in DOMAIN rep.resp.d
    /\ rep.resp.d.error_code = 0

\* The reply is the application-level error envelope with a truthy code.
ErrorEnvelope(rep) ==
    /\ rep.net = "up"
    /\ IsJson(rep.resp)
    /\ "error_code" \in DOMAIN rep.resp.d
    /\ rep.resp.d.error_code # 0
    /\ "error_msg" \in DOMAIN rep.resp.d

\* C1: after a call to logout on a session that holds the token t of an
\* earlier login, the session's headers no longer hold t, also when the
\* DELETE token response is a JSON body with a truthy error_code.
C1_LogoutAlwaysResets ==
    (op = "logout" /\ TokenOf(pre) # NoToken /\ ErrorEnvelope(reply))
        => TokenOf(headers) # TokenOf(pre)

\* C2: the response error check returns a non-JSON body unchanged, returns
\* a JSON body whose error_code is falsy unchanged, and raises APIError with
\* the body's error_code and error_msg when the error_code is truthy.
C2_ErrorCheck ==
    chkOut # Pending =>
        /\ ~IsJson(chkResp) => chkOut = Return(chkResp)
        /\ (IsJson(chkResp) /\ "error_code" \in DOMAIN chkResp.d) =>
              /\ chkResp.d.error_code = 0 => chkOut = Return(chkResp)
              /\ (chkResp.d.error_code # 0 /\ "error_msg" \in DOMAIN chkResp.d) =>
                    chkOut = Raise([type |-> "APIError",
                                    code |-> chkResp.d.error_code,
                                    msg |-> chkResp.d.error_msg])

C2_Witness ==
    /\ chkResp = Json([error_code |-> 1, error_msg |-> "bad"])
    /\ chkOut = Raise([type |-> "APIError", code |-> 1, msg |-> "bad"])

\* C3: a JSON body without an error_code field is returned unchanged and
\* nothing is raised.
C3_NoErrorCodePasses ==
    (chkOut # Pending /\ IsJson(chkResp) /\ "error_code" \notin DOMAIN chkResp.d)
        => chkOut = Return(chkResp)

\* C7: a login that completes against response.token = t leaves
\* X-SecurityCenter = t in the session's default headers (replacing an older
\* token) and returns None, and every request issued after it, up to and
\* including the DELETE of the next logout, carries X-SecurityCenter: t.
C7_LoginSetsToken ==
    /\ (op = "login" /\ ret.ok) =>
          /\ Accepted(reply)
          /\ XSC \in DOMAIN headers
          /\ headers[XSC] = reply.resp.d.response.token
          /\ ret.val = None
    /\ auth # NoToken => TokenOf(headers) = auth
    /\ authPre # NoToken => TokenOf(sent.headers) = authPre

C7_Witness ==
    /\ op = "upload"
    /\ authPre = "def456"
    /\ TokenOf(sent.headers) = "def456"
    /\ sent.path = "file/upload"

\* C8 as written: a GET system that is answered, but whose envelope lacks
\* one of the four identity fields, fails construction with an error of
\* another kind than the error of a transport failure.
C8_DistinctErrorKinds ==
    (op = "init" /\ Accepted(reply)
        /\ ("response" \notin DOMAIN reply.resp.d
            \/ ~(IdentityKeys \subseteq DOMAIN reply.resp.d.response)))
        => (~ret.ok /\ ret.exc.type # NotFoundError(host).type)

\* C8, amended: construction issues GET system first; a transport failure
\* fails it with a ServerError naming the host; an accepted JSON body whose
\* envelope lacks one of version, buildID, licenseStatus, uuid fails it with
\* a ServerError of the same kind that differs in its message only; a client
\* exists only when all four were present, and then holds exactly them.
C8_Construction ==
    op = "init" =>
        /\ sent = [method |-> "GET", path |-> "system",
                   headers |-> EmptyDict, body |-> None]
        /\ reply.net = "down" =>
              ret = Raise([type |-> "ServerError",
                           msg |-> <<"No SecurityCenter Instance at ", host>>])
        /\ (Accepted(reply)
              /\ ("response" \notin DOMAIN reply.resp.d
                  \/ ~(IdentityKeys \subseteq DOMAIN reply.resp.d.response))) =>
              /\ ret = Raise([type |-> "ServerError",
                              msg |-> <<"Invalid SecurityCenter Instance">>])
              /\ phase = "failed"
        /\ phase = "ready" <=> ret.ok
        /\ phase = "ready" =>
              /\ Accepted(reply)
              /\ "response" \in DOMAIN reply.resp.d
              /\ IdentityKeys \subseteq DOMAIN reply.resp.d.response
              /\ ident = [version |-> reply.resp.d.response.version,
                          build_id |-> reply.resp.d.response.buildID,
                          license |-> reply.resp.d.response.licenseStatus,
                          uuid |-> reply.resp.d.response.uuid]
        /\ phase # "ready" => (phase = "failed" /\ ident = NoIdent)

C8_Witness ==
    /\ op = "init"
    /\ phase = "failed"
    /\ Accepted(reply)
    /\ "response" \in DOMAIN reply.resp.d
    /\ DOMAIN reply.resp.d.response = IdentityKeys \ {"version"}
    /\ ret = Raise(InvalidError)

-----------------------------------------------------------------------------
(* Properties of analysis                                                  *)

\* The page size and the query type the call asks for.
AskedPageSize == IF "page_size" \in DOMAIN args THEN args.page_size ELSE 1000
AskedType == IF "type" \in DOMAIN args THEN args.type ELSE "vuln"
AskedAll == "page" \notin DOMAIN args \/ args.page = [str |-> "all"]

\* The call is under way or over and built its query body itself.
Built == pc # "idle" /\ "query" \notin DOMAIN args /\ "tool" \in DOMAIN args

\* The results of the first n pages received, in the order of the requests.
RECURSIVE PagesResults(_)
PagesResults(n) ==
    IF n = 0 THEN <<>>
    ELSE PagesResults(n - 1) \o reqs[n].reply.resp.d.response.results

\* Every request so far was answered by a page of a data set of T records
\* that ends at the end offset the request asked for.
Steady(T) ==
    \A i \in 1..Len(reqs) :
        /\ Accepted(reqs[i].reply)
        /\ "response" \in DOMAIN reqs[i].reply.resp.d
        /\ {"totalRecords", "endOffset", "results"}
              \subseteq DOMAIN reqs[i].reply.resp.d.response
        /\ reqs[i].reply.resp.d.response.totalRecords = [str |-> Digits(T)]
        /\ reqs[i].reply.resp.d.response.endOffset
              = [num |-> reqs[i].body.query.endOffset]

Ceil(a, b) == (a + b - 1) \div b

\* C4: with page="all", a query built by the client, page size P >= 1 and a
\* server that reports the constant total T >= 1 and the requested end
\* offset, request i asks for ((i-1)P, iP), there are exactly ceil(T/P)
\* requests, and the list returned is the pages' results in request order
\* (T items when every page holds P items or the remainder).
C4_AllPages ==
    \A T \in (1..(MaxTotal + 1)) \cup {BigTotal} :
        (Built /\ AskedAll /\ AskedPageSize >= 1 /\ Steady(T)
            /\ "page_obj" \notin DOMAIN args) =>
            LET P == AskedPageSize IN
            /\ \A i \in 1..Len(reqs) :
                  /\ reqs[i].body.query.startOffset = (i - 1) * P
                  /\ reqs[i].body.query.endOffset = i * P
            /\ Len(reqs) <= Ceil(T, P)
            /\ (pc = "loop" /\ Len(reqs) < Ceil(T, P)) => total_records > count
            /\ pc # "raised"
            /\ pc = "done" =>
                  /\ Len(reqs) = Ceil(T, P)
                  /\ ret = Return([list |-> PagesResults(Len(reqs))])
                  /\ (\A i \in 1..Len(reqs) :
                         Len(reqs[i].reply.resp.d.response.results)
                            = Min(P, T - (i - 1) * P))
                       => Len(ret.val.list) = T

C4_Witness ==
    /\ pc = "done"
    /\ Built /\ AskedAll /\ AskedPageSize = 1000 /\ Steady(BigTotal)
    /\ Len(reqs) = 3
    /\ reqs[1].body.query.startOffset = 0 /\ reqs[1].body.query.endOffset = 1000
    /\ reqs[2].body.query.startOffset = 1000 /\ reqs[2].body.query.endOffset = 2000
    /\ reqs[3].body.query.startOffset = 2000 /\ reqs[3].body.query.endOffset = 3000
    /\ ret.ok /\ Len(ret.val.list) = BigTotal
    /\ \A i \in 1..BigTotal : ret.val.list[i] = i

\* C5: with a numeric page p >= 0, page size P >= 1 and a query built by the
\* client, exactly one request is issued, for (p*P, (p+1)*P), and the loop
\* ends after it whatever the server reports.
C5_OnePage ==
    (Built /\ ~AskedAll /\ AskedPageSize >= 1) =>
        /\ Len(reqs) <= 1
        /\ (pc = "loop" /\ Len(reqs) = 0) => total_records > count
        /\ (pc = "loop" /\ Len(reqs) = 1) => ~(total_records > count)
        /\ pc \in {"done", "raised"} => Len(reqs) = 1
        /\ \A i \in 1..Len(reqs) :
              /\ reqs[i].body.query.startOffset = args.page.int * AskedPageSize
              /\ reqs[i].body.query.endOffset = (args.page.int + 1) * AskedPageSize

C5_Witness ==
    /\ pc = "done"
    /\ Built
    /\ "page" \in DOMAIN args
    /\ args.page = [int |-> 2] /\ AskedPageSize = 2
    /\ Len(reqs) = 1
    /\ reqs[1].body.query.startOffset = 4
    /\ reqs[1].body.query.endOffset = 6
    /\ reqs[1].reply.resp.d.response.totalRecords = [str |-> <<"3">>]

\* C6: in a query body built by the client, query.filters has the length and
\* order of the filter tuples passed, entry i holds tuple i as filterName,
\* operator and value, and every entry's type is the one query type of the
\* call ("vuln" unless given), which is query.type too.
C6_Filters ==
    Built =>
        /\ kwargs.query.type = AskedType
        /\ Len(kwargs.query.filters) = Len(filters)
        /\ \A i \in 1..Len(filters) :
              kwargs.query.filters[i]
                 = [filterName |-> filters[i][1], operator |-> filters[i][2],
                    value |-> filters[i][3], type |-> AskedType]
        /\ \A n \in 1..Len(reqs) :
              /\ reqs[n].body.query.filters = kwargs.query.filters
              /\ reqs[n].body.query.type = AskedType

C6_Witness ==
    /\ Built
    /\ Len(reqs) = 1
    /\ filters = << <<"severity", ">=", "3">>, <<"ip", "=", "10.10.0.0/16">> >>
    /\ AskedType = "event"
    /\ reqs[1].body.query.filters[1].filterName = "severity"
    /\ reqs[1].body.query.filters[2].type = "event"

\* C9: analysis returns the accumulated list exactly when it holds at least
\* one item and None when it holds none; it never returns an empty list.
\* With the default transform the accumulated list is the pages' results.
C9_ListOrNone ==
    pc = "done" =>
        /\ ret.ok
        /\ Len(output) > 0 => ret.val = [list |-> output]
        /\ Len(output) = 0 => ret.val = None
        /\ ret.val # [list |-> <<>>]
        /\ opts.page_obj = "return_results" => output = PagesResults(Len(reqs))

C9_Witness ==
    /\ pc = "done"
    /\ Len(reqs) = 1
    /\ reqs[1].reply.resp.d.response.results = <<>>
    /\ ret = Return(None)

\* C10: a function passed as page_func is the transform that is called, once
\* for each page response, with page_func_kw as its keyword arguments.
C10_PageFuncUsed ==
    ("page_func" \in DOMAIN args /\ pc = "done") =>
        /\ Len(calls) = Len(reqs)
        /\ \A i \in 1..Len(calls) :
              /\ calls[i].fn = args.page_func
              /\ "page_func_kw" \in DOMAIN args =>
                    \A k \in DOMAIN args.page_func_kw :
                        /\ k \in DOMAIN calls[i].kw
                        /\ calls[i].kw[k] = args.page_func_kw[k]

\* What response i reported.
ReportedTotals == (0..MaxTotal) \cup {BigTotal}
ReportedTotal(i) ==
    CHOOSE t \in ReportedTotals :
        reqs[i].reply.resp.d.response.totalRecords = [str |-> Digits(t)]
ReportedEnd(i) == reqs[i].reply.resp.d.response.endOffset.num

\* C11: with page="all" and page size >= 1, against a server whose end
\* offsets grow strictly and whose totals stay at most MaxTotal, the call
\* returns; every response but the last reported a total beyond its end
\* offset, and the last one, after which the call returns, did not.
C11_Terminates ==
    /\ [](/\ \A i \in 1..(Len(reqs) - 1) :
                /\ ReportedEnd(i) < ReportedEnd(i + 1)
                /\ ReportedTotal(i) > ReportedEnd(i)
          /\ pc = "done" =>
                /\ Len(reqs) >= 1
                /\ ReportedTotal(Len(reqs)) <= ReportedEnd(Len(reqs))
          /\ pc # "raised")
    /\ <>(pc = "done")

C11_Witness ==
    /\ pc = "done"
    /\ Len(reqs) = MaxTotal + 1
    /\ \A i \in 1..MaxTotal : ReportedEnd(i) = i - 1 /\ ReportedTotal(i) = MaxTotal

\* Response i passed the response error check and is a page with a numeric
\* total, an end offset and results.
WellFormed(i) ==
    /\ Accepted(reqs[i].reply)
    /\ "response" \in DOMAIN reqs[i].reply.resp.d
    /\ {"totalRecords", "endOffset", "results"}
          \subseteq DOMAIN reqs[i].reply.resp.d.response
    /\ \E t \in ReportedTotals :
          reqs[i].reply.resp.d.response.totalRecords = [str |-> Digits(t)]

\* Response i reported an end offset below its total.
Lagging(i) == WellFormed(i) /\ ReportedEnd(i) < ReportedTotal(i)

\* C12: with page="all", as long as every response so far reported an end
\* offset below its total, the call has neither returned nor raised and its
\* loop condition holds, so that the next request is issued: nothing but the
\* server's figures ends the loop.
C12_NoIterationCap ==
    (AskedAll /\ Len(reqs) >= 1 /\ \A i \in 1..Len(reqs) : Lagging(i)) =>
        /\ pc = "loop"
        /\ total_records > count
        /\ ret = Pending

C12_Witness ==
    /\ AskedAll
    /\ Len(reqs) = MaxRequests
    /\ \A i \in 1..Len(reqs) : Lagging(i) /\ ReportedEnd(i) = 0
    /\ pc = "loop"
    /\ total_records > count

\* C13: with page="all" and well-formed responses, a further request
\* follows a response exactly when that response's total is beyond its end
\* offset; that request starts at the response's end offset and ends one
\* page size later; this holds whatever the pages hold and whatever the
\* transform makes of them.
C13_ServerDriven ==
    (AskedAll /\ Len(reqs) >= 1 /\ \A i \in 1..Len(reqs) : WellFormed(i)) =>
        LET n == Len(reqs) IN
        /\ \A i \in 1..(n - 1) :
              /\ ReportedTotal(i) > ReportedEnd(i)
              /\ reqs[i + 1].body.query.startOffset = ReportedEnd(i)
              /\ reqs[i + 1].body.query.endOffset = ReportedEnd(i) + AskedPageSize
        /\ pc \in {"loop", "done"}
        /\ pc = "done" => ~(ReportedTotal(n) > ReportedEnd(n))
        /\ pc = "loop" =>
              /\ (total_records > count) <=> (ReportedTotal(n) > ReportedEnd(n))
              /\ kwargs.query.startOffset = ReportedEnd(n)
              /\ kwargs.query.endOffset = ReportedEnd(n) + AskedPageSize

\* Three requests for a data set of MaxTotal records, more items accumulated
\* than the data set holds.
C13_Witness ==
    /\ AskedAll /\ "page_obj" \notin DOMAIN args
    /\ pc = "done"
    /\ Len(reqs) = 3
    /\ \A i \in 1..Len(reqs) : WellFormed(i) /\ ReportedTotal(i) = MaxTotal
    /\ ReportedEnd(1) = 0
    /\ reqs[2].body.query.startOffset = 0
    /\ reqs[3].body.query.startOffset = ReportedEnd(2)
    /\ reqs[3].body.query.startOffset # reqs[2].body.query.endOffset
    /\ Len(output) > MaxTotal

\* The items iteration i adds when the items of lists alone are added, and
\* when the items of tuples are added as well.
ListItems(i) ==
    LET r == reqs[i].reply.resp.d.response.results IN
    IF calls[i].fn = "return_results" THEN r
    ELSE IF calls[i].fn = "newest_first" THEN Reverse(r)
    ELSE <<>>
SequenceItems(i) ==
    IF calls[i].fn = "as_tuple" THEN reqs[i].reply.resp.d.response.results
    ELSE ListItems(i)

RECURSIVE ListsUpTo(_)
ListsUpTo(n) == IF n = 0 THEN <<>> ELSE ListsUpTo(n - 1) \o ListItems(n)
RECURSIVE SequencesUpTo(_)
SequencesUpTo(n) == IF n = 0 THEN <<>> ELSE SequencesUpTo(n - 1) \o SequenceItems(n)

\* Iteration i called the transform in effect once, on response i together
\* with the auxiliary arguments.
CalledOnce(i) ==
    /\ calls[i].fn = opts.page_obj
    /\ calls[i].kw = ("resp" :> reqs[i].reply.resp) @@ opts.page_kwargs

\* Request i+1 is request i with the offsets response i calls for.
FollowsResponse(i) ==
    /\ ReportedTotal(i) > ReportedEnd(i)
    /\ reqs[i + 1].body =
          [reqs[i].body EXCEPT !.query =
              ("startOffset" :> ReportedEnd(i))
                 @@ ("endOffset" :> ReportedEnd(i) + opts.page_size) @@ @]

\* C14 as stated: over well-formed responses the transform is called once
\* for each response, the output is the items of every sequence it returned,
\* in order, and the requests depend on the responses' figures alone.
C14_SequenceAppended ==
    (\A i \in 1..Len(reqs) : WellFormed(i)) =>
        /\ Len(calls) = Len(reqs)
        /\ \A i \in 1..Len(reqs) : CalledOnce(i)
        /\ output = SequencesUpTo(Len(reqs))
        /\ \A i \in 1..(Len(reqs) - 1) : FollowsResponse(i)

\* C14, amended: over well-formed responses the transform is called once for
\* each response, the output is the items of every list it returned, in
\* order (a tuple or a number adds nothing), and the requests depend on the
\* responses' figures alone.
C14_ListAppended ==
    (\A i \in 1..Len(reqs) : WellFormed(i)) =>
        /\ Len(calls) = Len(reqs)
        /\ \A i \in 1..Len(reqs) : CalledOnce(i)
        /\ output = ListsUpTo(Len(reqs))
        /\ \A i \in 1..(Len(reqs) - 1) : FollowsResponse(i)

C14_Witness ==
    /\ pc = "done"
    /\ Len(reqs) = 2
    /\ \A i \in 1..Len(reqs) :
          /\ WellFormed(i)
          /\ calls[i].fn = "as_tuple"
          /\ reqs[i].reply.resp.d.response.results = <<i>>
    /\ output = <<>>
    /\ ret = Return(None)

\* The caller passed a query body of their own.
Custom == pc # "idle" /\ "query" \in DOMAIN args

\* C15: when the caller passes a query body, the call does not fail for want
\* of a tool, the first request carries that query as it is, filters and
\* offsets included, whatever filter tuples were passed; with a numeric page
\* no second request follows and the query stays as it is; with page="all"
\* the later requests carry the same query with the offsets alone replaced
\* by the ones the last response calls for.
C15_CustomQuery ==
    Custom =>
        /\ Len(reqs) = 0 => pc \in {"loop", "done"}
        /\ Len(reqs) >= 1 => reqs[1].body.query = args.query
        /\ ~AskedAll =>
              /\ Len(reqs) <= 1
              /\ pc \in {"loop", "done"} => kwargs.query = args.query
              /\ (pc = "done" /\ AskedPageSize >= 1) => Len(reqs) = 1
        /\ AskedAll =>
              \A i \in 2..Len(reqs) :
                  reqs[i].body.query =
                      ("startOffset" :> ReportedEnd(i - 1))
                         @@ ("endOffset" :> ReportedEnd(i - 1) + AskedPageSize)
                         @@ args.query

C15_Witness ==
    /\ Custom /\ AskedAll
    /\ "tool" \notin DOMAIN args
    /\ filters # <<>>
    /\ Len(reqs) = 2
    /\ reqs[1].body.query = args.query
    /\ reqs[2].body.query.startOffset = 1
    /\ reqs[2].body.query.endOffset = 1 + MaxPageSize
    /\ reqs[2].body.query.filters = args.query.filters

\* C16: when a request of the loop fails, by the transport or by an error
\* envelope, the call ends raising that very error: ConnectionError, or
\* APIError with the envelope's code and message; every earlier request had
\* succeeded, no list is returned although items had been accumulated, and
\* nothing is requested after the failure.
C16_ErrorsPropagate ==
    /\ [](LET n == Len(reqs) IN
          /\ \A i \in 1..(n - 1) :
                reqs[i].reply.net = "up" /\ ~ErrorEnvelope(reqs[i].reply)
          /\ (n >= 1 /\ reqs[n].reply.net = "down") =>
                pc = "raised" /\ ret = Raise(ConnectionError)
          /\ (n >= 1 /\ ErrorEnvelope(reqs[n].reply)) =>
                /\ pc = "raised"
                /\ ret = Raise(APIError(reqs[n].reply.resp.d.error_code,
                                        reqs[n].reply.resp.d.error_msg))
          /\ pc = "raised" => ~ret.ok)
    /\ [][pc = "raised" => (pc' = pc /\ reqs' = reqs /\ ret' = ret)]_vars

C16_Witness ==
    /\ pc = "raised"
    /\ Len(reqs) = 3
    /\ Len(output) = 2
    /\ ErrorEnvelope(reqs[3].reply)
    /\ ret = Raise(APIError(1, "bad"))

\* The reply passed the response error check but holds no response.token.
TokenMissing(rep) ==
    Accepted(rep) /\ ("response" \in DOMAIN rep.resp.d => "token" \notin DOMAIN rep.resp.d.response)

\* C17: a login whose POST token fails at the transport, is answered by an
\* error envelope or is answered without response.token raises that error
\* (ConnectionError, APIError with the envelope's code and message,
\* KeyError), and any login that raises leaves the session's headers, the
\* X-SecurityCenter header among them, as they were before the call.
C17_FailedLoginKeepsAuth ==
    op = "login" =>
        /\ reply.net = "down" => ret = Raise(ConnectionError)
        /\ ErrorEnvelope(reply) =>
              ret = Raise(APIError(reply.resp.d.error_code, reply.resp.d.error_msg))
        /\ TokenMissing(reply) =>
              ret \in {Raise(KeyError("response")), Raise(KeyError("token"))}
        /\ ~ret.ok =>
              /\ headers = pre
              /\ TokenOf(headers) = TokenOf(pre)
              /\ auth = authPre

C17_Witness ==
    /\ op = "login"
    /\ TokenOf(pre) = "abc123"
    /\ ErrorEnvelope(reply)
    /\ ret = Raise(APIError(1, "bad"))
    /\ TokenOf(headers) = "abc123"

AskedSourceType ==
    IF "sourceType" \in DOMAIN args THEN args.sourceType ELSE "cumulative"

\* C18: every body sent to the analysis endpoint holds query, type and
\* sourceType, the latter two as the caller gave them or "vuln" and
\* "cumulative"; it holds none of page, page_size, page_obj, page_kwargs and
\* generator; when the client built the query, tool is inside the query and
\* not beside it.  A call without page pages through everything from
\* offset 0, and a call without page_size uses pages of 1000.
C18_RequestBody ==
    /\ \A n \in 1..Len(reqs) :
          LET b == reqs[n].body IN
          /\ {"query", "type", "sourceType"} \subseteq DOMAIN b
          /\ b.type = AskedType
          /\ b.sourceType = AskedSourceType
          /\ DOMAIN b \cap {"page", "page_size", "page_obj", "page_kwargs",
                            "generator"} = {}
          /\ Built => "tool" \notin DOMAIN b /\ b.query.tool = args.tool
    /\ (pc \in {"loop", "done"} \/ Len(reqs) >= 1) =>
          /\ "page" \notin DOMAIN args => opts.page = [str |-> "all"]
          /\ "page_size" \notin DOMAIN args => opts.page_size = 1000
          /\ (Built /\ Len(reqs) >= 1 /\ "page" \notin DOMAIN args) =>
                /\ reqs[1].body.query.startOffset = 0
                /\ reqs[1].body.query.endOffset = opts.page_size

C18_Witness ==
    /\ DOMAIN args = {"tool"}
    /\ filters = <<>>
    /\ Len(reqs) = 2
    /\ reqs[1].body =
          [query |-> [tool |-> "sumip", type |-> "vuln", filters |-> <<>>,
                      startOffset |-> 0, endOffset |-> 1000],
           type |-> "vuln", sourceType |-> "cumulative"]
    /\ reqs[2].body.query.startOffset = 1000
    /\ DOMAIN reqs[2].body = {"query", "type", "sourceType"}

====
